---- MODULE Spec2Model ----
(***************************************************************************)
(* Credential authentication guarded by the in-memory rate limiter.        *)
(*                                                                         *)
(*   lib/rate-limiter.ts        the store and its operations               *)
(*   api/modules/user/user.route.ts    userRoute.authenticate              *)
(*   api/modules/user/user.service.ts  authenticateUser                    *)
(*   lib/password.ts            hashPassword / verifyPassword              *)
(*                                                                         *)
(* Spec      : the rate limiter driven directly through its exported       *)
(*             functions, under one configuration chosen at start.         *)
(* SpecAuth  : concurrent authenticate requests (default configuration).   *)
(***************************************************************************)
EXTENDS Integers, Naturals, Sequences, FiniteSets, TLC

(* ------------------------------ bounds -------------------------------- *)

\* number of clock steps explored after start
MaxTicks == 4

\* largest maxAttempts / windowMs / blockDurationMs of an override config
MaxOverrideAttempts == 3
MaxOverrideWindow == 2
MaxOverrideBlock == 3

\* failures recorded on one entry beyond maxAttempts
MaxExtraAttempts == 1

(* --------------------------- rate-limiter ------------------------------ *)

Identifiers == {"192.168.1.1", "192.168.1.2"}

\* a default configuration blocking one attempt early
DEFAULT_CONFIG_FourAttempts ==
    [maxAttempts |-> 4,
     windowMs |-> 15 * 60 * 1000,
     blockDurationMs |-> 30 * 60 * 1000]

DEFAULT_CONFIG ==
    [maxAttempts |-> 5,
     windowMs |-> 15 * 60 * 1000,
     blockDurationMs |-> 30 * 60 * 1000]

\* configurations passed as the optional override
OverrideConfigs ==
    [maxAttempts : 1..MaxOverrideAttempts,
     windowMs : 1..MaxOverrideWindow,
     blockDurationMs : 1..MaxOverrideBlock]

Configs == {DEFAULT_CONFIG} \cup OverrideConfigs

\* the step by which Date.now() is observed to advance: the window of the
\* default configuration, one millisecond for the small overrides
TickMs(config) == IF config = DEFAULT_CONFIG THEN config.windowMs ELSE 1

VARIABLES
    rateLimitStore,   \* Map<string, RateLimitEntry>: a function on its keys
    now,              \* the value Date.now() returns
    cfg,              \* the configuration every call of a run is given
    streak,           \* per identifier: failures recorded in a row since the
                      \* entry was absent, each within windowMs of the
                      \* previous one (0: no such run in progress)
    lastCall,         \* the limiter function called last and what it returned
                      \* (for recordSuccessfulAttempt, flag tells whether
                      \* the identifier was limited when it was called;
                      \* for isRateLimited and cleanupRateLimit, num is
                      \* the number of entries removed; for
                      \* cleanupRateLimit, flag tells whether a removed
                      \* entry carried a blockedUntil)
    req,              \* the authenticate requests in flight
    log,              \* the answers one caller has received, in order
    hasher,           \* the last hashPassword / verifyPassword call
    reference         \* the store the same recordFailedAttempt and
                      \* recordSuccessfulAttempt calls leave when nothing
                      \* evicts an entry

vars ==
    <<rateLimitStore, now, cfg, streak, lastCall, req, log, hasher,
      reference>>

\* JavaScript truthiness of an optional number
Truthy(n) == n # 0

HasBlockedUntil(entry) == "blockedUntil" \in DOMAIN entry

\* Map.prototype.delete
MapDelete(store, identifier) ==
    [k \in (DOMAIN store) \ {identifier} |-> store[k]]

\* Map.prototype.set
MapSet(store, identifier, entry) ==
    [k \in (DOMAIN store) \cup {identifier} |->
        IF k = identifier THEN entry ELSE store[k]]

\* isRateLimited deleting every entry whose block is not running
isRateLimited_DeleteUnblocked(store, identifier, config, t) ==
    IF identifier \notin DOMAIN store
    THEN [ret |-> FALSE, store |-> store]
    ELSE LET entry == store[identifier] IN
         IF HasBlockedUntil(entry) /\ Truthy(entry.blockedUntil)
               /\ t < entry.blockedUntil
         THEN [ret |-> TRUE, store |-> store]
         ELSE IF t - entry.lastAttempt > config.windowMs
         THEN [ret |-> FALSE, store |-> MapDelete(store, identifier)]
         ELSE [ret |-> entry.attempts >= config.maxAttempts,
               store |-> MapDelete(store, identifier)]

\* isRateLimited: the value returned and the store it leaves
isRateLimited(store, identifier, config, t) ==
    IF identifier \notin DOMAIN store
    THEN [ret |-> FALSE, store |-> store]
    ELSE LET entry == store[identifier] IN
         IF HasBlockedUntil(entry) /\ Truthy(entry.blockedUntil)
               /\ t < entry.blockedUntil
         THEN [ret |-> TRUE, store |-> store]
         ELSE IF t - entry.lastAttempt > config.windowMs
         THEN [ret |-> FALSE, store |-> MapDelete(store, identifier)]
         ELSE [ret |-> entry.attempts >= config.maxAttempts, store |-> store]

\* FailedEntry blocking only above maxAttempts
FailedEntry_BlockAbove(store, identifier, config, t) ==
    LET entry == IF identifier \in DOMAIN store
                 THEN store[identifier]
                 ELSE [attempts |-> 0, lastAttempt |-> t]
        attempts == IF t - entry.lastAttempt > config.windowMs
                    THEN 1
                    ELSE entry.attempts + 1
        counted == [entry EXCEPT !.attempts = attempts, !.lastAttempt = t]
    IN  IF attempts > config.maxAttempts
        THEN [k \in (DOMAIN counted) \cup {"blockedUntil"} |->
                 IF k = "blockedUntil"
                 THEN t + config.blockDurationMs
                 ELSE counted[k]]
        ELSE counted

\* FailedEntry counting on across an elapsed window
FailedEntry_NoReset(store, identifier, config, t) ==
    LET entry == IF identifier \in DOMAIN store
                 THEN store[identifier]
                 ELSE [attempts |-> 0, lastAttempt |-> t]
        attempts == entry.attempts + 1
        counted == [entry EXCEPT !.attempts = attempts, !.lastAttempt = t]
    IN  IF attempts >= config.maxAttempts
        THEN [k \in (DOMAIN counted) \cup {"blockedUntil"} |->
                 IF k = "blockedUntil"
                 THEN t + config.blockDurationMs
                 ELSE counted[k]]
        ELSE counted

\* FailedEntry starting from a fresh entry whatever the store holds
FailedEntry_Overwrite(store, identifier, config, t) ==
    LET counted == [attempts |-> 1, lastAttempt |-> t]
    IN  IF 1 >= config.maxAttempts
        THEN [k \in (DOMAIN counted) \cup {"blockedUntil"} |->
                 IF k = "blockedUntil"
                 THEN t + config.blockDurationMs
                 ELSE counted[k]]
        ELSE counted

\* FailedEntry restarting the count at zero after an elapsed window
FailedEntry_ResetToZero(store, identifier, config, t) ==
    LET entry == IF identifier \in DOMAIN store
                 THEN store[identifier]
                 ELSE [attempts |-> 0, lastAttempt |-> t]
        attempts == IF t - entry.lastAttempt > config.windowMs
                    THEN 0
                    ELSE entry.attempts + 1
        counted == [entry EXCEPT !.attempts = attempts, !.lastAttempt = t]
    IN  IF attempts >= config.maxAttempts
        THEN [k \in (DOMAIN counted) \cup {"blockedUntil"} |->
                 IF k = "blockedUntil"
                 THEN t + config.blockDurationMs
                 ELSE counted[k]]
        ELSE counted

\* the entry recordFailedAttempt writes
FailedEntry(store, identifier, config, t) ==
    LET entry == IF identifier \in DOMAIN store
                 THEN store[identifier]
                 ELSE [attempts |-> 0, lastAttempt |-> t]
        attempts == IF t - entry.lastAttempt > config.windowMs
                    THEN 1
                    ELSE entry.attempts + 1
        counted == [entry EXCEPT !.attempts = attempts, !.lastAttempt = t]
    IN  IF attempts >= config.maxAttempts
        THEN [k \in (DOMAIN counted) \cup {"blockedUntil"} |->
                 IF k = "blockedUntil"
                 THEN t + config.blockDurationMs
                 ELSE counted[k]]
        ELSE counted

\* recordFailedAttempt counting the failure against every stored identifier
recordFailedAttempt_Shared(store, identifier, config, t) ==
    [k \in DOMAIN store \cup {identifier} |->
        FailedEntry(store, k, config, t)]

recordFailedAttempt(store, identifier, config, t) ==
    MapSet(store, identifier, FailedEntry(store, identifier, config, t))

\* recordSuccessfulAttempt sparing an entry that carries a block
recordSuccessfulAttempt_KeepBlocked(store, identifier) ==
    IF identifier \in DOMAIN store /\ HasBlockedUntil(store[identifier])
    THEN store
    ELSE MapDelete(store, identifier)

recordSuccessfulAttempt(store, identifier) ==
    MapDelete(store, identifier)

Max(a, b) == IF a >= b THEN a ELSE b

\* getTimeUntilUnblocked without the clamp at zero
getTimeUntilUnblocked_NoClamp(store, identifier, t) ==
    IF identifier \notin DOMAIN store THEN 0
    ELSE LET entry == store[identifier] IN
         IF ~HasBlockedUntil(entry) \/ ~Truthy(entry.blockedUntil) THEN 0
         ELSE entry.blockedUntil - t

getTimeUntilUnblocked(store, identifier, t) ==
    IF identifier \notin DOMAIN store THEN 0
    ELSE LET entry == store[identifier] IN
         IF ~HasBlockedUntil(entry) \/ ~Truthy(entry.blockedUntil) THEN 0
         ELSE Max(0, entry.blockedUntil - t)

\* cleanupRateLimit evicting on the window test alone
CleanupEvicts_IgnoreBlock(entry, config, t) ==
    t - entry.lastAttempt > config.windowMs

\* cleanupRateLimit sparing every entry that carries a blockedUntil
CleanupEvicts_NeverBlocked(entry, config, t) ==
    /\ ~HasBlockedUntil(entry)
    /\ t - entry.lastAttempt > config.windowMs

\* the entries cleanupRateLimit deletes
CleanupEvicts(entry, config, t) ==
    /\ (~HasBlockedUntil(entry) \/ ~Truthy(entry.blockedUntil)
          \/ t > entry.blockedUntil)
    /\ t - entry.lastAttempt > config.windowMs

cleanupRateLimit(store, config, t) ==
    [k \in {i \in DOMAIN store : ~CleanupEvicts(store[i], config, t)} |->
        store[k]]

(* ------------------------- ghost bookkeeping --------------------------- *)

NoCall == [op |-> "none", id |-> "", flag |-> FALSE, num |-> 0]

\* the run of in-window failures recordFailedAttempt extends or starts
StreakAfterFailure(store, identifier, config, t, s) ==
    IF identifier \notin DOMAIN store THEN 1
    ELSE IF s > 0 /\ t - store[identifier].lastAttempt <= config.windowMs
    THEN s + 1
    ELSE 0

\* a run ends when its entry leaves the store
StreakAfter(store2, s) ==
    [i \in DOMAIN s |-> IF i \in DOMAIN store2 THEN s[i] ELSE 0]

NoRequests == [p \in {} |-> 0]

NoHasher == [op |-> "none"]

(* --------------------- Spec: the limiter on its own -------------------- *)

Init ==
    /\ cfg \in Configs
    /\ rateLimitStore = [k \in {} |-> 0]
    /\ now = TickMs(cfg)
    /\ streak = [i \in Identifiers |-> 0]
    /\ lastCall = NoCall
    /\ req = NoRequests
    /\ log = << >>
    /\ hasher = NoHasher
    /\ reference = [k \in {} |-> 0]

\* time passes between two calls
AdvanceClock ==
    /\ now < (1 + MaxTicks) * TickMs(cfg)
    /\ now' = now + TickMs(cfg)
    /\ lastCall' = NoCall
    /\ UNCHANGED <<reference, log, hasher, rateLimitStore, cfg, streak, req>>

IsRateLimited(identifier) ==
    LET r == isRateLimited(rateLimitStore, identifier, cfg, now) IN
    /\ rateLimitStore' = r.store
    /\ streak' = StreakAfter(r.store, streak)
    /\ lastCall' = [op |-> "isRateLimited", id |-> identifier,
                    flag |-> r.ret,
                    num |-> Cardinality(DOMAIN rateLimitStore)
                              - Cardinality(DOMAIN r.store)]
    /\ UNCHANGED <<reference, log, hasher, now, cfg, req>>

RecordFailedAttempt(identifier) ==
    /\ identifier \in DOMAIN rateLimitStore =>
          rateLimitStore[identifier].attempts
              < cfg.maxAttempts + MaxExtraAttempts
    /\ rateLimitStore' =
          recordFailedAttempt(rateLimitStore, identifier, cfg, now)
    /\ streak' = [streak EXCEPT ![identifier] =
          StreakAfterFailure(rateLimitStore, identifier, cfg, now, @)]
    /\ lastCall' = [op |-> "recordFailedAttempt", id |-> identifier,
                    flag |-> FALSE, num |-> 0]
    /\ UNCHANGED <<reference, log, hasher, now, cfg, req>>

RecordSuccessfulAttempt(identifier) ==
    /\ rateLimitStore' = recordSuccessfulAttempt(rateLimitStore, identifier)
    /\ streak' = StreakAfter(rateLimitStore', streak)
    /\ lastCall' = [op |-> "recordSuccessfulAttempt", id |-> identifier,
                    flag |-> isRateLimited(rateLimitStore, identifier,
                                           cfg, now).ret,
                    num |-> 0]
    /\ UNCHANGED <<reference, log, hasher, now, cfg, req>>

GetTimeUntilUnblocked(identifier) ==
    /\ lastCall' = [op |-> "getTimeUntilUnblocked", id |-> identifier,
                    flag |-> FALSE,
                    num |-> getTimeUntilUnblocked(rateLimitStore,
                                                  identifier, now)]
    /\ UNCHANGED <<reference, log, hasher, rateLimitStore, now, cfg, streak, req>>

CleanupRateLimit ==
    /\ rateLimitStore' = cleanupRateLimit(rateLimitStore, cfg, now)
    /\ streak' = StreakAfter(rateLimitStore', streak)
    /\ lastCall' = [op |-> "cleanupRateLimit", id |-> "",
                    flag |-> \E i \in DOMAIN rateLimitStore :
                                /\ i \notin DOMAIN rateLimitStore'
                                /\ HasBlockedUntil(rateLimitStore[i]),
                    num |-> Cardinality(DOMAIN rateLimitStore)
                              - Cardinality(DOMAIN rateLimitStore')]
    /\ UNCHANGED <<reference, log, hasher, now, cfg, req>>

Next ==
    \/ AdvanceClock
    \/ \E identifier \in Identifiers : IsRateLimited(identifier)
    \/ \E identifier \in Identifiers : RecordFailedAttempt(identifier)
    \/ \E identifier \in Identifiers : RecordSuccessfulAttempt(identifier)
    \/ \E identifier \in Identifiers : GetTimeUntilUnblocked(identifier)
    \/ CleanupRateLimit

Spec == Init /\ [][Next]_vars

(* --------------------------- lib/password.ts --------------------------- *)

SALT_ROUNDS == 12

\* length of a bcrypt hash string: "$2b$" cost "$" 22 salt chars, 31 digest
BcryptHashLength == 7 + 22 + 31

\* bcrypt reads no more than the first 72 bytes of a password
BcryptMaxPasswordBytes == 72

Truncate72(password) ==
    IF Len(password) > BcryptMaxPasswordBytes
    THEN SubSeq(password, 1, BcryptMaxPasswordBytes)
    ELSE password

\* a hash string, by its parts: version, cost, the 22 characters read as
\* the salt, what follows them, and the length of the whole string
hashPassword(password, salt) ==
    [version |-> "2b", cost |-> SALT_ROUNDS, salt |-> salt,
     digest |-> <<Truncate72(password), salt, SALT_ROUNDS>>,
     length |-> BcryptHashLength]

\* '$2b$12$dummyhashtopreventtimingattacks.invalid'
DummyHash ==
    [version |-> "2b", cost |-> 12, salt |-> "dummyhashtopreventtimi",
     digest |-> <<"ngattacks.invalid">>,
     length |-> 7 + 22 + 17]

\* the empty string
NoHash == [version |-> "", cost |-> 0, salt |-> "", digest |-> <<>>,
           length |-> 0]

\* 'invalidHash'
InvalidHash == [version |-> "", cost |-> 0, salt |-> "",
                digest |-> <<"invalidHash">>, length |-> 11]

\* bcrypt.compare accepting every password for a complete hash
bcryptCompare_AcceptComplete(password, hashedPassword) ==
    Len(hashedPassword.digest) = 3

\* bcrypt.compare: re-hash under the salt and cost the string embeds and
\* compare with the string
bcryptCompare(password, hashedPassword) ==
    <<Truncate72(password), hashedPassword.salt, hashedPassword.cost>>
        = hashedPassword.digest

\* verifyPassword: the value it resolves to when bcrypt does not reject
verifyPassword(password, hashedPassword) ==
    bcryptCompare(password, hashedPassword)

\* a string that is a complete bcrypt hash
WellFormedHash(h) ==
    /\ h.version \in {"2a", "2b", "2y"}
    /\ h.length = BcryptHashLength
    /\ Len(h.digest) = 3

(* ------------------- api/modules/user/user.service.ts ------------------ *)

\* the users table: one account
UsersTable ==
    {[email |-> "john@example.com",
      password |-> hashPassword("plainPassword123", "salt-john")]}

NoRow == [email |-> "", password |-> NoHash]

\* db.query.users.findFirst({ where: eq(users.email, email) })
findFirst(email) ==
    IF \E u \in UsersTable : u.email = email
    THEN CHOOSE u \in UsersTable : u.email = email
    ELSE NoRow

\* result?.password || dummy
passwordToVerify(result) ==
    IF result # NoRow /\ result.password # NoHash
    THEN result.password
    ELSE DummyHash

\* Rejects without the password check
Rejects_OnlyMissing(result, isPasswordValid) ==
    result = NoRow

\* if (!result || !isPasswordValid)
Rejects(result, isPasswordValid) ==
    result = NoRow \/ ~isPasswordValid

UNAUTHORIZED ==
    [code |-> "UNAUTHORIZED", message |-> <<"Invalid email or password">>]

\* handleDatabaseError for an error that is not a TRPCError
INTERNAL_SERVER_ERROR ==
    [code |-> "INTERNAL_SERVER_ERROR",
     message |-> <<"Database error while processing user">>]

(* -------------------- api/modules/user/user.route.ts ------------------- *)

\* requests handled at the same time
NumRequests == 2

Procs == 1..NumRequests

\* ctx.clientIP of the requests: one origin
ClientIPs == {"127.0.0.1"}

\* { email, password } as sent by the caller
AuthInputs ==
    {[email |-> "john@example.com", password |-> "plainPassword123"],
     [email |-> "john@example.com", password |-> "wrongPassword"],
     [email |-> "nobody@example.com", password |-> "plainPassword123"],
     [email |-> "invalid-email", password |-> "password123"],
     [email |-> "john@example.com", password |-> ""]}

\* authenticateUserSchema without .min(1) on the password
authenticateUserSchema_AnyPassword(input) ==
    input.email \in {"john@example.com", "nobody@example.com"}

\* authenticateUserSchema: z.string().email(), z.string().min(1)
authenticateUserSchema(input) ==
    /\ input.email \in {"john@example.com", "nobody@example.com"}
    /\ input.password # ""

BAD_REQUEST == [code |-> "BAD_REQUEST", message |-> <<"Invalid input">>]

CeilDiv(a, b) == (a + b - 1) \div b

\* the error thrown when the pre-check refuses the request
TOO_MANY_REQUESTS(timeUntilUnblocked) ==
    [code |-> "TOO_MANY_REQUESTS",
     message |-> <<"Too many failed login attempts. Please try again in",
                   CeilDiv(timeUntilUnblocked, 1000 * 60), "minutes.">>]

authRateLimit_isLimited(store, identifier, t) ==
    isRateLimited(store, identifier, DEFAULT_CONFIG, t)

authRateLimit_recordFailed(store, identifier, t) ==
    recordFailedAttempt(store, identifier, DEFAULT_CONFIG, t)

authRateLimit_recordSuccess(store, identifier) ==
    recordSuccessfulAttempt(store, identifier)

authRateLimit_getTimeRemaining(store, identifier, t) ==
    getTimeUntilUnblocked(store, identifier, t)

\* the pre-check letting a limited origin through
PreCheckRefuses_Never(limited) == FALSE

\* if (authRateLimit.isLimited(clientIP)) { ... throw ... }
PreCheckRefuses(limited) == limited

\* RouteRecords with a catch block that only re-throws
RouteRecords_NoCatchRecord(threw) ==
    [success |-> IF threw THEN 0 ELSE 1,
     failed |-> 0]

\* try { ...; recordSuccess } catch { recordFailed; throw }: the limiter
\* calls the handler makes once authenticateUser has settled
RouteRecords(threw) ==
    [success |-> IF threw THEN 0 ELSE 1,
     failed |-> IF threw THEN 1 ELSE 0]

OK(user) == [code |-> "OK", message |-> <<user>>]

Pending == [code |-> "", message |-> <<>>]

IdleReq ==
    [pc |-> "idle", clientIP |-> "", email |-> "", password |-> "",
     limited |-> FALSE, result |-> NoRow, isPasswordValid |-> FALSE,
     hash |-> NoHash, lookups |-> 0, verifies |-> 0,
     failed |-> 0, success |-> 0, operational |-> FALSE,
     outcome |-> Pending]

\* the store after the limiter calls RouteRecords names
ApplyRecords(store, identifier, t, calls) ==
    LET s1 == IF calls.success > 0
              THEN authRateLimit_recordSuccess(store, identifier)
              ELSE store
    IN  IF calls.failed > 0
        THEN authRateLimit_recordFailed(s1, identifier, t)
        ELSE s1

\* authenticateUser has settled: the handler records and answers
Settle(p, r, threw, outcome) ==
    LET calls == RouteRecords(threw) IN
    /\ rateLimitStore' =
          ApplyRecords(rateLimitStore, r.clientIP, now, calls)
    /\ streak' =
          IF calls.failed > 0
          THEN [streak EXCEPT ![r.clientIP] =
                   StreakAfterFailure(rateLimitStore, r.clientIP,
                                      DEFAULT_CONFIG, now, @)]
          ELSE StreakAfter(rateLimitStore', streak)
    /\ req' = [req EXCEPT ![p] =
          [r EXCEPT !.pc = "done",
                    !.failed = @ + calls.failed,
                    !.success = @ + calls.success,
                    !.outcome = outcome]]

InitAuth ==
    /\ cfg = DEFAULT_CONFIG
    /\ rateLimitStore = [k \in {} |-> 0]
    /\ now = TickMs(cfg)
    /\ streak = [i \in ClientIPs |-> 0]
    /\ lastCall = NoCall
    /\ req = [p \in Procs |-> IdleReq]
    /\ log = << >>
    /\ hasher = NoHasher
    /\ reference = [k \in {} |-> 0]

\* a request whose input the schema rejects never reaches the handler
RejectInput(p) ==
    /\ req[p].pc = "idle"
    /\ \E ip \in ClientIPs, input \in AuthInputs :
          /\ ~authenticateUserSchema(input)
          /\ req' = [req EXCEPT ![p] =
                [IdleReq EXCEPT !.pc = "done", !.clientIP = ip,
                                !.email = input.email,
                                !.password = input.password,
                                !.outcome = BAD_REQUEST]]
    /\ UNCHANGED <<reference, log, hasher, rateLimitStore, now, cfg, streak, lastCall>>

\* the handler up to its first await: the pre-check, and either the
\* TOO_MANY_REQUESTS error (Date.now() is read again by getTimeRemaining
\* and may have advanced) or the start of the lookup
AuthenticateStart(p) ==
    /\ req[p].pc = "idle"
    /\ \E ip \in ClientIPs, input \in AuthInputs :
          LET chk == authRateLimit_isLimited(rateLimitStore, ip, now)
              r == [IdleReq EXCEPT !.clientIP = ip,
                                   !.email = input.email,
                                   !.password = input.password,
                                   !.limited = chk.ret]
          IN
          /\ authenticateUserSchema(input)
          /\ rateLimitStore' = chk.store
          /\ IF PreCheckRefuses(chk.ret)
             THEN \E t2 \in {now, now + TickMs(cfg)} :
                     /\ t2 <= (1 + MaxTicks) * TickMs(cfg)
                     /\ now' = t2
                     /\ req' = [req EXCEPT ![p] =
                           [r EXCEPT !.pc = "done",
                                     !.outcome = TOO_MANY_REQUESTS(
                                         authRateLimit_getTimeRemaining(
                                             chk.store, ip, t2))]]
             ELSE /\ now' = now
                  /\ req' = [req EXCEPT ![p] =
                        [r EXCEPT !.pc = "lookup", !.lookups = @ + 1]]
    /\ streak' = StreakAfter(rateLimitStore', streak)
    /\ UNCHANGED <<reference, log, hasher, cfg, lastCall>>

\* findFirst resolves: verifyPassword is called on the stored or dummy hash
LookupReturns(p) ==
    LET r == req[p]
        result == findFirst(r.email)
    IN
    /\ r.pc = "lookup"
    /\ req' = [req EXCEPT ![p] =
          [r EXCEPT !.pc = "verify", !.result = result,
                    !.hash = passwordToVerify(result),
                    !.verifies = @ + 1]]
    /\ UNCHANGED <<reference, log, hasher, rateLimitStore, now, cfg, streak, lastCall>>

\* findFirst rejects: handleDatabaseError, then the handler's catch
LookupThrows(p) ==
    LET r == req[p] IN
    /\ r.pc = "lookup"
    /\ Settle(p, [r EXCEPT !.operational = TRUE], TRUE,
              INTERNAL_SERVER_ERROR)
    /\ UNCHANGED <<reference, log, hasher, now, cfg, lastCall>>

\* verifyPassword resolves: UNAUTHORIZED or the user without the password
VerifyReturns(p) ==
    LET r == req[p]
        isPasswordValid == verifyPassword(r.password, r.hash)
        threw == Rejects(r.result, isPasswordValid)
    IN
    /\ r.pc = "verify"
    /\ Settle(p, [r EXCEPT !.isPasswordValid = isPasswordValid], threw,
              IF threw THEN UNAUTHORIZED ELSE OK(r.result.email))
    /\ UNCHANGED <<reference, log, hasher, now, cfg, lastCall>>

\* verifyPassword throws 'Failed to verify password'
VerifyThrows(p) ==
    LET r == req[p] IN
    /\ r.pc = "verify"
    /\ Settle(p, [r EXCEPT !.operational = TRUE], TRUE,
              INTERNAL_SERVER_ERROR)
    /\ UNCHANGED <<reference, log, hasher, now, cfg, lastCall>>

\* the response is sent; the slot takes the next request
Respond(p) ==
    /\ req[p].pc = "done"
    /\ req' = [req EXCEPT ![p] = IdleReq]
    /\ UNCHANGED <<reference, log, hasher, rateLimitStore, now, cfg, streak, lastCall>>

\* time passes between two steps of the event loop
Tick ==
    /\ now < (1 + MaxTicks) * TickMs(cfg)
    /\ now' = now + TickMs(cfg)
    /\ UNCHANGED <<reference, log, hasher, rateLimitStore, cfg, streak, lastCall, req>>

\* the interval started at module load fires
CleanupTimer ==
    /\ rateLimitStore' = cleanupRateLimit(rateLimitStore, DEFAULT_CONFIG, now)
    /\ streak' = StreakAfter(rateLimitStore', streak)
    /\ UNCHANGED <<reference, log, hasher, now, cfg, lastCall, req>>

NextAuth ==
    \/ \E p \in Procs : RejectInput(p)
    \/ \E p \in Procs : AuthenticateStart(p)
    \/ \E p \in Procs : LookupReturns(p)
    \/ \E p \in Procs : LookupThrows(p)
    \/ \E p \in Procs : VerifyReturns(p)
    \/ \E p \in Procs : VerifyThrows(p)
    \/ \E p \in Procs : Respond(p)
    \/ Tick
    \/ CleanupTimer

SpecAuth == InitAuth /\ [][NextAuth]_vars

(* ============================== claims ================================= *)

\* the request passed schema validation and the block pre-check
Admitted(r) ==
    /\ r.pc # "idle"
    /\ authenticateUserSchema([email |-> r.email, password |-> r.password])
    /\ ~r.limited

\* C1: a request whose origin isLimited reports as limited when it starts
\* fails with TOO_MANY_REQUESTS without a lookup, without a password
\* verification and without recordFailed or recordSuccess.
C1_FailFastOnBlock ==
    \A p \in Procs :
        (req[p].pc # "idle" /\ req[p].limited) =>
            /\ req[p].pc = "done"
            /\ req[p].outcome.code = "TOO_MANY_REQUESTS"
            /\ req[p].lookups = 0
            /\ req[p].verifies = 0
            /\ req[p].failed = 0
            /\ req[p].success = 0

C1_Witness ==
    \E p \in Procs :
        /\ req[p].pc = "done"
        /\ req[p].limited
        /\ req[p].email = "john@example.com"
        /\ req[p].password = "plainPassword123"
        /\ req[p].outcome.code = "TOO_MANY_REQUESTS"

\* C2: a request that passed the pre-check has made no limiter call while
\* authenticateUser is pending and exactly one when it has answered:
\* recordSuccess if a user is returned, recordFailed if an error is thrown.
C2_ExactlyOneRecord ==
    \A p \in Procs :
        Admitted(req[p]) =>
            /\ req[p].pc \in {"lookup", "verify"} =>
                  req[p].failed = 0 /\ req[p].success = 0
            /\ req[p].pc = "done" =>
                  /\ req[p].failed + req[p].success = 1
                  /\ req[p].success = 1 <=> req[p].outcome.code = "OK"

C2_Witness ==
    \E p, q \in Procs :
        /\ req[p].pc = "done" /\ Admitted(req[p])
        /\ req[p].outcome.code = "OK" /\ req[p].success = 1
        /\ req[q].pc = "done" /\ Admitted(req[q])
        /\ req[q].outcome.code = "UNAUTHORIZED" /\ req[q].failed = 1

\* C3: a request that failed because the lookup or the hasher threw has
\* not been counted as a failure.
C3_OperationalNotCounted ==
    \A p \in Procs :
        (req[p].pc = "done" /\ req[p].operational) =>
            req[p].failed = 0 /\ req[p].success = 0

\* C4: a request for an unknown email and a request for a known email with
\* a wrong password, both admitted and without operational error, each
\* verify once against a well-formed hash of the same cost, fail with the
\* same code and message and record one failure.
C4_TimingUniform ==
    \A p, q \in Procs :
        ( /\ req[p].pc = "done" /\ Admitted(req[p]) /\ ~req[p].operational
          /\ req[q].pc = "done" /\ Admitted(req[q]) /\ ~req[q].operational
          /\ req[p].result = NoRow
          /\ req[q].result # NoRow /\ ~req[q].isPasswordValid ) =>
            /\ req[p].verifies = 1 /\ req[q].verifies = 1
            /\ WellFormedHash(req[p].hash) /\ WellFormedHash(req[q].hash)
            /\ req[p].hash.cost = req[q].hash.cost
            /\ req[p].outcome = UNAUTHORIZED
            /\ req[q].outcome = req[p].outcome
            /\ req[p].failed = 1 /\ req[q].failed = 1

\* C5: the step that starts a request from a limited origin leaves the
\* store as it was and answers at once with an error computed from the
\* store, the origin and the clock alone: the submitted credentials have
\* no part in it.
C5_BlockedIgnoresCredentials ==
    [][\A p \in Procs :
          (req[p].pc = "idle" /\ req'[p].pc # "idle" /\ req'[p].limited) =>
              /\ rateLimitStore' = rateLimitStore
              /\ req'[p].pc = "done"
              /\ req'[p].outcome =
                    TOO_MANY_REQUESTS(
                        getTimeUntilUnblocked(rateLimitStore,
                                              req'[p].clientIP, now'))
              /\ req'[p].failed = 0 /\ req'[p].success = 0]_vars

C5_Witness ==
    \E p, q \in Procs :
        /\ req[p].pc = "done" /\ req[p].limited
        /\ req[q].pc = "done" /\ req[q].limited
        /\ req[p].clientIP = req[q].clientIP
        /\ req[p].password = "plainPassword123"
        /\ req[p].email = "john@example.com"
        /\ req[q].email = "nobody@example.com"
        /\ req[p].outcome = req[q].outcome

\* C6: an admitted request without operational error returns the user
\* exactly when the lookup found a row and verifyPassword accepted the
\* password against that row's hash, that is exactly for the account's own
\* credentials; every other such request fails with UNAUTHORIZED.
C6_SuccessIffRecordAndVerified ==
    \A p \in Procs :
        (req[p].pc = "done" /\ Admitted(req[p]) /\ ~req[p].operational) =>
            /\ req[p].outcome.code = "OK" <=>
                  /\ req[p].result # NoRow
                  /\ req[p].isPasswordValid
                  /\ req[p].hash = req[p].result.password
            /\ req[p].outcome.code = "OK" <=>
                  /\ req[p].email = "john@example.com"
                  /\ req[p].password = "plainPassword123"
            /\ req[p].outcome.code = "OK" =>
                  req[p].outcome = OK(req[p].email)
            /\ req[p].outcome.code # "OK" => req[p].outcome = UNAUTHORIZED

C6_Witness ==
    \E p, q \in Procs :
        /\ req[p].pc = "done" /\ Admitted(req[p])
        /\ req[p].outcome.code = "OK"
        /\ req[q].pc = "done" /\ Admitted(req[q]) /\ ~req[q].operational
        /\ req[q].result # NoRow /\ ~req[q].isPasswordValid
        /\ req[q].outcome = UNAUTHORIZED

Limited(i) == isRateLimited(rateLimitStore, i, cfg, now).ret

TimeLeft(i) == getTimeUntilUnblocked(rateLimitStore, i, now)

\* C7: after fewer than maxAttempts failures recorded from an absent entry,
\* each within windowMs of the previous one, the identifier is not limited;
\* after exactly maxAttempts of them it is limited and the time until
\* unblocked is positive and at most blockDurationMs, until the block ends.
C7_BlockThreshold ==
    \A i \in Identifiers :
        /\ streak[i] > 0 => i \in DOMAIN rateLimitStore
        /\ streak[i] \in 1..(cfg.maxAttempts - 1) => ~Limited(i)
        /\ ( /\ streak[i] = cfg.maxAttempts
             /\ now < rateLimitStore[i].lastAttempt + cfg.blockDurationMs ) =>
                /\ Limited(i)
                /\ TimeLeft(i) > 0
                /\ TimeLeft(i) <= cfg.blockDurationMs

C7_Witness ==
    \E i \in Identifiers :
        /\ cfg = DEFAULT_CONFIG
        /\ streak[i] = cfg.maxAttempts
        /\ rateLimitStore[i].attempts = 5
        /\ now > rateLimitStore[i].lastAttempt
        /\ Limited(i)

\* C8: once blockDurationMs has passed since the failure that set the
\* block, and no failure was recorded since, the identifier is not limited
\* and the time until unblocked is 0.
C8_BlockExpiry ==
    \A i \in DOMAIN rateLimitStore :
        ( /\ HasBlockedUntil(rateLimitStore[i])
          /\ rateLimitStore[i].blockedUntil
                = rateLimitStore[i].lastAttempt + cfg.blockDurationMs
          /\ now >= rateLimitStore[i].blockedUntil ) =>
            ~Limited(i) /\ TimeLeft(i) = 0

\* C9: a failure recorded more than windowMs after the entry's lastAttempt
\* leaves attempts = 1 and lastAttempt = now; when the count stood at
\* maxAttempts - 1 the failure sets no block, and the identifier is not
\* limited unless an earlier block is still running.
C9_WindowReset ==
    [][\A i \in Identifiers :
          ( /\ lastCall'.op = "recordFailedAttempt" /\ lastCall'.id = i
            /\ i \in DOMAIN rateLimitStore
            /\ now - rateLimitStore[i].lastAttempt > cfg.windowMs ) =>
              /\ rateLimitStore'[i].attempts = 1
              /\ rateLimitStore'[i].lastAttempt = now
              /\ rateLimitStore[i].attempts = cfg.maxAttempts - 1 =>
                    /\ rateLimitStore'[i] =
                          [rateLimitStore[i] EXCEPT !.attempts = 1,
                                                    !.lastAttempt = now]
                    /\ ~HasBlockedUntil(rateLimitStore[i]) =>
                          ~isRateLimited(rateLimitStore', i, cfg, now').ret
      ]_vars

C9_Witness ==
    \E i \in Identifiers :
        /\ lastCall.op = "recordFailedAttempt" /\ lastCall.id = i
        /\ streak[i] = 0
        /\ cfg.maxAttempts >= 2
        /\ rateLimitStore[i].attempts = 1
        /\ ~Limited(i)

\* C10: a call of recordSuccessfulAttempt leaves the identifier without an
\* entry, not limited and with 0 time until unblocked, whatever the entry
\* was; a second call right after the first changes nothing.
C10_SuccessResets ==
    [][\A i \in Identifiers :
          (lastCall'.op = "recordSuccessfulAttempt" /\ lastCall'.id = i) =>
              /\ i \notin DOMAIN rateLimitStore'
              /\ ~isRateLimited(rateLimitStore', i, cfg, now').ret
              /\ getTimeUntilUnblocked(rateLimitStore', i, now') = 0
              /\ \A j \in Identifiers \ {i} :
                    /\ j \in DOMAIN rateLimitStore' <=>
                          j \in DOMAIN rateLimitStore
                    /\ j \in DOMAIN rateLimitStore =>
                          rateLimitStore'[j] = rateLimitStore[j]
              /\ (lastCall.op = "recordSuccessfulAttempt"
                     /\ lastCall.id = i) =>
                    rateLimitStore' = rateLimitStore
      ]_vars

C10_Witness ==
    \E i \in Identifiers :
        /\ lastCall.op = "recordSuccessfulAttempt" /\ lastCall.id = i
        /\ lastCall.flag
        /\ i \notin DOMAIN rateLimitStore

\* C11: in every interleaving of concurrent requests from one origin, the
\* entry counts every failure recorded since it was absent, each within
\* windowMs of the previous one: no recorded failure is lost.
C11_NoLostIncrement ==
    \A ip \in ClientIPs :
        streak[ip] > 0 =>
            /\ ip \in DOMAIN rateLimitStore
            /\ rateLimitStore[ip].attempts = streak[ip]

\* the sixth failure in a row comes from a request that passed the
\* pre-check before the fifth was recorded
C11_Witness ==
    \E ip \in ClientIPs :
        /\ streak[ip] = DEFAULT_CONFIG.maxAttempts + 1
        /\ rateLimitStore[ip].attempts = DEFAULT_CONFIG.maxAttempts + 1
        /\ \A p \in Procs : req[p].pc = "done" /\ req[p].failed = 1

(* ------------- SpecE2E: one caller, the end-to-end scenario ------------ *)
(* maxAttempts calls with a wrong password, one more inside the window of  *)
(* the last failure, then a call with the right password once more than    *)
(* blockDurationMs has passed since that failure.                          *)

E2ECaller == 1

\* "the first 5 attempts: UNAUTHORIZED, the 6th: TOO_MANY_REQUESTS"
ScenarioFailures == 5

WrongCalls == ScenarioFailures + 1

ScenarioCalls == WrongCalls + 1

\* the time of the answer to the fifth call
LastFailureAt == log[ScenarioFailures].t

InitE2E ==
    /\ cfg = DEFAULT_CONFIG
    /\ rateLimitStore = [k \in {} |-> 0]
    /\ now = TickMs(cfg)
    /\ streak = [i \in ClientIPs |-> 0]
    /\ lastCall = NoCall
    /\ req = [p \in {E2ECaller} |-> IdleReq]
    /\ log = << >>
    /\ hasher = NoHasher
    /\ reference = [k \in {} |-> 0]

\* the caller sends its next request
E2ECall ==
    /\ Len(log) < ScenarioCalls
    /\ Len(log) = WrongCalls =>
          now - LastFailureAt > DEFAULT_CONFIG.blockDurationMs
    /\ AuthenticateStart(E2ECaller)
    /\ req'[E2ECaller].email = "john@example.com"
    /\ req'[E2ECaller].password =
          IF Len(log) < WrongCalls THEN "wrongPassword"
          ELSE "plainPassword123"
    /\ Len(log) = WrongCalls - 1 =>
          now' - LastFailureAt <= DEFAULT_CONFIG.windowMs

E2ELookupReturns == LookupReturns(E2ECaller)

E2EVerifyReturns == VerifyReturns(E2ECaller)

\* the caller receives the answer
E2EAnswer ==
    /\ req[E2ECaller].pc = "done"
    /\ log' = Append(log, [outcome |-> req[E2ECaller].outcome, t |-> now])
    /\ req' = [req EXCEPT ![E2ECaller] = IdleReq]
    /\ UNCHANGED <<reference, hasher, rateLimitStore, now, cfg, streak,
                 lastCall>>

\* time passes; the failures stay within windowMs of one another
E2ETick ==
    /\ req[E2ECaller].pc # "done"
    /\ Tick
    /\ Len(log) < WrongCalls =>
          \A ip \in DOMAIN rateLimitStore :
              now' - rateLimitStore[ip].lastAttempt
                  <= DEFAULT_CONFIG.windowMs

NextE2E ==
    \/ E2ECall
    \/ E2ELookupReturns
    \/ E2EVerifyReturns
    \/ E2EAnswer
    \/ E2ETick
    \/ CleanupTimer

SpecE2E == InitE2E /\ [][NextE2E]_vars

\* C12: in the scenario the first five answers are UNAUTHORIZED, the sixth
\* is TOO_MANY_REQUESTS reporting between 15 and 30 minutes (30 when no
\* time has passed since the fifth), the seventh returns the user, and
\* after it the store has no entry.
C12_EndToEnd ==
    /\ \A k \in 1..Len(log) :
          /\ k <= ScenarioFailures => log[k].outcome = UNAUTHORIZED
          /\ k = WrongCalls =>
                /\ log[k].outcome.code = "TOO_MANY_REQUESTS"
                /\ log[k].outcome.message[2] >= 15
                /\ log[k].outcome.message[2] <= 30
                /\ log[k].t = LastFailureAt =>
                      log[k].outcome.message[2] = 30
          /\ k = ScenarioCalls => log[k].outcome = OK("john@example.com")
    /\ Len(log) = ScenarioCalls => rateLimitStore = << >>

C12_Witness ==
    /\ Len(log) = ScenarioCalls
    /\ log[WrongCalls].outcome.message[2] = 30
    /\ log[ScenarioCalls].outcome.code = "OK"

\* the entry of i has no running block and is older than the window
StaleUnblocked(i) ==
    /\ i \in DOMAIN rateLimitStore
    /\ ~( /\ HasBlockedUntil(rateLimitStore[i])
          /\ now < rateLimitStore[i].blockedUntil )
    /\ now - rateLimitStore[i].lastAttempt > cfg.windowMs

C14_CleanupExact ==
    [][lastCall'.op = "cleanupRateLimit" =>
          rateLimitStore' =
              [k \in {i \in DOMAIN rateLimitStore : ~StaleUnblocked(i)} |->
                  rateLimitStore[k]]
      ]_vars

\* C15: getTimeUntilUnblocked returns max(0, blockedUntil - now) when the
\* identifier has an entry with a blockedUntil and 0 otherwise; the result
\* is never negative and never exceeds blockDurationMs.
C15_TimeUntilUnblocked ==
    \A i \in Identifiers :
        (lastCall.op = "getTimeUntilUnblocked" /\ lastCall.id = i) =>
            /\ lastCall.num >= 0
            /\ lastCall.num <= cfg.blockDurationMs
            /\ IF /\ i \in DOMAIN rateLimitStore
                  /\ "blockedUntil" \in DOMAIN rateLimitStore[i]
               THEN \/ /\ rateLimitStore[i].blockedUntil - now >= 0
                       /\ lastCall.num = rateLimitStore[i].blockedUntil - now
                    \/ /\ rateLimitStore[i].blockedUntil - now < 0
                       /\ lastCall.num = 0
               ELSE lastCall.num = 0

C15_Witness ==
    \E i \in Identifiers :
        /\ lastCall.op = "getTimeUntilUnblocked" /\ lastCall.id = i
        /\ lastCall.num > 0
        /\ lastCall.num < cfg.blockDurationMs
        /\ lastCall.num = rateLimitStore[i].blockedUntil - now

C17_IdentifiersIndependent ==
    [][\A a \in Identifiers :
          ( /\ lastCall'.op \in {"isRateLimited", "recordFailedAttempt",
                                 "recordSuccessfulAttempt",
                                 "getTimeUntilUnblocked"}
            /\ lastCall'.id = a ) =>
              \A b \in Identifiers \ {a} :
                  /\ b \in DOMAIN rateLimitStore' <=>
                        b \in DOMAIN rateLimitStore
                  /\ b \in DOMAIN rateLimitStore =>
                        rateLimitStore'[b] = rateLimitStore[b]
                  /\ isRateLimited(rateLimitStore', b, cfg, now').ret
                        = isRateLimited(rateLimitStore, b, cfg, now).ret
      ]_vars

C17_Witness ==
    \E a \in Identifiers : \E b \in Identifiers \ {a} :
        /\ lastCall.op = "recordFailedAttempt" /\ lastCall.id = a
        /\ a \in DOMAIN rateLimitStore /\ b \in DOMAIN rateLimitStore
        /\ isRateLimited(rateLimitStore, a, cfg, now).ret
        /\ now < rateLimitStore[a].blockedUntil
        /\ ~isRateLimited(rateLimitStore, b, cfg, now).ret
        /\ rateLimitStore[b].attempts = cfg.maxAttempts - 1

(* ------------------- lib/password.ts, called directly ------------------ *)

\* 72 characters
Pad72 ==
    "Aa1!Aa1!Aa1!Aa1!Aa1!Aa1!Aa1!Aa1!Aa1!Aa1!Aa1!Aa1!Aa1!Aa1!Aa1!Aa1!Aa1!Aa1!"

\* plaintexts: short ones, one of 72 characters, two of 73 characters that
\* differ in the last one, one of 73 characters that differs in the first
Plaintexts ==
    {"plainPassword123", "wrongPassword", "",
     Pad72, Pad72 \o "a", Pad72 \o "b", "B" \o SubSeq(Pad72, 2, 72) \o "a"}

\* the salts bcrypt.hash may draw
Salts == {"salt-john", "salt-1", "salt-2"}

\* strings that are not the output of hashPassword
MalformedHashes == {InvalidHash, NoHash, DummyHash}

InitPassword ==
    /\ cfg = DEFAULT_CONFIG
    /\ rateLimitStore = [k \in {} |-> 0]
    /\ now = TickMs(cfg)
    /\ streak = [i \in Identifiers |-> 0]
    /\ lastCall = NoCall
    /\ req = NoRequests
    /\ log = << >>
    /\ hasher = NoHasher
    /\ reference = [k \in {} |-> 0]

\* hashPassword(password) resolves with a hash under a fresh salt
HashPassword ==
    /\ \E password \in Plaintexts, salt \in Salts :
          hasher' = [op |-> "hashPassword", password |-> password,
                     plain |-> password, produced |-> TRUE,
                     hash |-> hashPassword(password, salt), ret |-> FALSE]
    /\ UNCHANGED <<reference, rateLimitStore, now, cfg, streak, lastCall,
                 req, log>>

\* verifyPassword(password, hash) for the hash hashPassword last produced
VerifyProduced ==
    /\ hasher.op # "none"
    /\ hasher.produced
    /\ \E password \in Plaintexts :
          hasher' = [hasher EXCEPT
                        !.op = "verifyPassword",
                        !.password = password,
                        !.ret = verifyPassword(password, hasher.hash)]
    /\ UNCHANGED <<reference, rateLimitStore, now, cfg, streak, lastCall,
                 req, log>>

\* verifyPassword(password, hash) for a string hashPassword never returns
VerifyMalformed ==
    /\ \E password \in Plaintexts, hash \in MalformedHashes :
          hasher' = [op |-> "verifyPassword", password |-> password,
                     plain |-> "", produced |-> FALSE,
                     hash |-> hash, ret |-> verifyPassword(password, hash)]
    /\ UNCHANGED <<reference, rateLimitStore, now, cfg, streak, lastCall,
                 req, log>>

NextPassword ==
    \/ HashPassword
    \/ VerifyProduced
    \/ VerifyMalformed

SpecPassword == InitPassword /\ [][NextPassword]_vars

C19_BlockedUntilAfterLastAttempt ==
    \A i \in DOMAIN rateLimitStore :
        HasBlockedUntil(rateLimitStore[i]) =>
            rateLimitStore[i].blockedUntil > rateLimitStore[i].lastAttempt

\* C20: an entry whose block is active has attempts >= maxAttempts, and an
\* entry with attempts in 1..maxAttempts-1 has no active block.
C20_ActiveBlockMeansMaxAttempts ==
    \A i \in DOMAIN rateLimitStore :
        LET entry == rateLimitStore[i]
            active == HasBlockedUntil(entry) /\ now < entry.blockedUntil
        IN  /\ active => entry.attempts >= cfg.maxAttempts
            /\ entry.attempts \in 1..(cfg.maxAttempts - 1) => ~active

\* C21: at the block boundary (now = blockedUntil) the block counts as
\* expired, and isRateLimited and cleanupRateLimit never disagree at one
\* instant about whether an entry is stale and no longer blocked: the
\* entries cleanupRateLimit would evict are the entries isRateLimited would
\* remove.
C21_BoundaryUniform ==
    \A i \in DOMAIN rateLimitStore :
        /\ (HasBlockedUntil(rateLimitStore[i])
              /\ now = rateLimitStore[i].blockedUntil) =>
                 ~isRateLimited([k \in {i} |->
                                    [attempts |-> 0,
                                     lastAttempt |-> now,
                                     blockedUntil |->
                                         rateLimitStore[i].blockedUntil]],
                                i, cfg, now).ret
        /\ CleanupEvicts(rateLimitStore[i], cfg, now) <=> StaleUnblocked(i)

\* C22: for an entry present before and after a step, a recordFailedAttempt
\* within the window raises attempts by exactly 1, a recordFailedAttempt
\* after the window sets attempts to 1, and no other step changes attempts;
\* so attempts is lowered only by a failure arriving after the window.
C22_AttemptsMonotone ==
    [][\A i \in Identifiers :
          (i \in DOMAIN rateLimitStore /\ i \in DOMAIN rateLimitStore') =>
              LET failure == /\ lastCall'.op = "recordFailedAttempt"
                             /\ lastCall'.id = i
                  elapsed == now - rateLimitStore[i].lastAttempt
                                 > cfg.windowMs
                  before == rateLimitStore[i].attempts
                  after == rateLimitStore'[i].attempts
              IN  /\ (failure /\ ~elapsed) => after = before + 1
                  /\ (failure /\ elapsed) => after = 1
                  /\ ~failure => after = before
                  /\ after < before => (failure /\ elapsed /\ after = 1)
      ]_vars

C22_Witness ==
    \E i \in DOMAIN rateLimitStore :
        /\ lastCall.op = "recordFailedAttempt" /\ lastCall.id = i
        /\ cfg.maxAttempts >= 2
        /\ HasBlockedUntil(rateLimitStore[i])
        /\ rateLimitStore[i].attempts = 1
        /\ rateLimitStore[i].lastAttempt = now

\* C23: no entry of the store has attempts = 0 or less.
C23_NoZeroAttempts ==
    \A i \in DOMAIN rateLimitStore : rateLimitStore[i].attempts >= 1

C23_Witness ==
    \E i \in DOMAIN rateLimitStore : \E j \in DOMAIN rateLimitStore :
        /\ i # j
        /\ lastCall.op = "recordFailedAttempt" /\ lastCall.id = i
        /\ rateLimitStore[i].attempts = 1
        /\ ~HasBlockedUntil(rateLimitStore[i])
        /\ rateLimitStore[j].attempts > cfg.maxAttempts

(* ------------- the limiter with its cleanup interval running ----------- *)

\* the identifier whose entry is followed
LiveIdentifier == "192.168.1.1"

NextLive ==
    \/ AdvanceClock
    \/ IsRateLimited(LiveIdentifier)
    \/ RecordFailedAttempt(LiveIdentifier)
    \/ RecordSuccessfulAttempt(LiveIdentifier)
    \/ GetTimeUntilUnblocked(LiveIdentifier)
    \/ CleanupRateLimit

\* the clock keeps advancing and the interval started at module load keeps
\* firing cleanupRateLimit
SpecLive ==
    /\ Init
    /\ [][NextLive]_vars
    /\ WF_vars(AdvanceClock)
    /\ WF_vars(CleanupRateLimit)

\* the first observed instant at which cleanupRateLimit evicts the entry of
\* i as it stands
EvictableAt(i) ==
    LET entry == rateLimitStore[i]
        idle == entry.lastAttempt + cfg.windowMs
    IN  TickMs(cfg) +
            (IF HasBlockedUntil(entry) /\ entry.blockedUntil > idle
             THEN entry.blockedUntil
             ELSE idle)

\* C24: an entry, whether accumulating, blocked or past its block, is
\* eventually removed from the store unless a further failure is recorded
\* for its identifier (stated for the entries whose eviction instant lies
\* within the observed span of the clock).
C24_EventuallyAbsent ==
    \A i \in Identifiers :
        ( /\ i \in DOMAIN rateLimitStore
          /\ EvictableAt(i) <= (1 + MaxTicks) * TickMs(cfg) )
        ~> ( \/ i \notin DOMAIN rateLimitStore
             \/ lastCall.op = "recordFailedAttempt" /\ lastCall.id = i )

C24_Witness ==
    /\ lastCall.op = "cleanupRateLimit"
    /\ lastCall.num = 1
    /\ lastCall.flag
    /\ LiveIdentifier \notin DOMAIN rateLimitStore

\* C25: whenever authenticate fails with TOO_MANY_REQUESTS, the number of
\* minutes its message reports is strictly positive.
C25_RemainingPositive ==
    \A p \in Procs :
        (req[p].pc = "done" /\ req[p].outcome.code = "TOO_MANY_REQUESTS") =>
            req[p].outcome.message[2] > 0

\* C26: while an origin's entry carries a block that is still running
\* (now < blockedUntil), isLimited stays true for the origin at every later
\* instant before blockedUntil, whatever the concurrent requests do.
C26_BlockHolds ==
    [][\A ip \in ClientIPs :
          ( /\ ip \in DOMAIN rateLimitStore
            /\ HasBlockedUntil(rateLimitStore[ip])
            /\ now < rateLimitStore[ip].blockedUntil
            /\ now' < rateLimitStore[ip].blockedUntil ) =>
              authRateLimit_isLimited(rateLimitStore', ip, now').ret
      ]_vars

\* C27: the entry of an origin never has attempts > maxAttempts, in every
\* interleaving of concurrent authenticate requests from that origin.
C27_AttemptsWithinMax ==
    \A ip \in DOMAIN rateLimitStore :
        rateLimitStore[ip].attempts <= DEFAULT_CONFIG.maxAttempts

(* --------------- one origin sending one request at a time -------------- *)

\* the number of requests the origin sends
MaxSeqCalls == 7

\* the origin sends its next request, with any well-formed input
SeqCall ==
    /\ Len(log) < MaxSeqCalls
    /\ AuthenticateStart(E2ECaller)

\* time passes while no answer is waiting to be read
SeqTick ==
    /\ req[E2ECaller].pc # "done"
    /\ Tick

NextSeq ==
    \/ SeqCall
    \/ E2ELookupReturns
    \/ E2EVerifyReturns
    \/ E2EAnswer
    \/ SeqTick
    \/ CleanupTimer

SpecSeq == InitE2E /\ [][NextSeq]_vars

\* the UNAUTHORIZED answers among answers i..j
FailedChecks(i, j) ==
    Cardinality({k \in i..j : log[k].outcome = UNAUTHORIZED})

\* C28 as claimed: the UNAUTHORIZED answers an origin obtains inside any
\* span of windowMs number at most maxAttempts, successful logins in
\* between or not.
C28_FailuresPerWindow ==
    \A i \in 1..Len(log) : \A j \in i..Len(log) :
        log[j].t - log[i].t < DEFAULT_CONFIG.windowMs =>
            FailedChecks(i, j) <= DEFAULT_CONFIG.maxAttempts

\* C28: the UNAUTHORIZED answers an origin obtains inside any span of
\* windowMs that holds no successful login number at most maxAttempts; every
\* successful login starts the count anew.
C28_FailuresPerWindowWithoutSuccess ==
    \A i \in 1..Len(log) : \A j \in i..Len(log) :
        ( /\ log[j].t - log[i].t < DEFAULT_CONFIG.windowMs
          /\ \A k \in i..j : log[k].outcome.code # "OK" ) =>
            FailedChecks(i, j) <= DEFAULT_CONFIG.maxAttempts

C28_Witness ==
    /\ Len(log) = MaxSeqCalls
    /\ log[Len(log)].t = log[1].t
    /\ FailedChecks(1, Len(log)) > DEFAULT_CONFIG.maxAttempts
    /\ \E k \in 1..Len(log) : log[k].outcome.code = "OK"

\* C29: at any instant, an identifier that isRateLimited reports as limited
\* has getTimeUntilUnblocked > 0.
C29_LimitedHasTimeLeft ==
    \A i \in Identifiers :
        isRateLimited(rateLimitStore, i, cfg, now).ret =>
            getTimeUntilUnblocked(rateLimitStore, i, now) > 0

(* ------- the limiter beside a run of the same calls without eviction --- *)

\* recordFailedAttempt, in both runs
EvictRecordFailedAttempt(identifier) ==
    /\ identifier \in DOMAIN reference =>
          reference[identifier].attempts
              < cfg.maxAttempts + MaxExtraAttempts
    /\ rateLimitStore' =
          recordFailedAttempt(rateLimitStore, identifier, cfg, now)
    /\ reference' = recordFailedAttempt(reference, identifier, cfg, now)
    /\ streak' = [streak EXCEPT ![identifier] =
          StreakAfterFailure(rateLimitStore, identifier, cfg, now, @)]
    /\ lastCall' = [op |-> "recordFailedAttempt", id |-> identifier,
                    flag |-> FALSE, num |-> 0]
    /\ UNCHANGED <<log, hasher, now, cfg, req>>

\* recordSuccessfulAttempt, in both runs
EvictRecordSuccessfulAttempt(identifier) ==
    /\ rateLimitStore' = recordSuccessfulAttempt(rateLimitStore, identifier)
    /\ reference' = recordSuccessfulAttempt(reference, identifier)
    /\ streak' = StreakAfter(rateLimitStore', streak)
    /\ lastCall' = [op |-> "recordSuccessfulAttempt", id |-> identifier,
                    flag |-> isRateLimited(rateLimitStore, identifier,
                                           cfg, now).ret,
                    num |-> 0]
    /\ UNCHANGED <<log, hasher, now, cfg, req>>

NextEvict ==
    \/ AdvanceClock
    \/ \E identifier \in Identifiers : EvictRecordFailedAttempt(identifier)
    \/ \E identifier \in Identifiers :
          EvictRecordSuccessfulAttempt(identifier)
    \/ \E identifier \in Identifiers : IsRateLimited(identifier)
    \/ CleanupRateLimit

SpecEvict == Init /\ [][NextEvict]_vars

\* C30: at every point of every sequence of calls, isRateLimited and
\* getTimeUntilUnblocked return for every identifier what they return in
\* the run of the same recordFailedAttempt / recordSuccessfulAttempt calls
\* and clock advances in which no cleanupRateLimit and no removal by
\* isRateLimited took place.
C30_EvictionUnobservable ==
    \A i \in Identifiers :
        /\ isRateLimited(rateLimitStore, i, cfg, now).ret
              = isRateLimited(reference, i, cfg, now).ret
        /\ getTimeUntilUnblocked(rateLimitStore, i, now)
              = getTimeUntilUnblocked(reference, i, now)

C30_Witness ==
    \E i \in Identifiers : \E j \in Identifiers \ {i} :
        /\ i \in DOMAIN rateLimitStore
        /\ ~HasBlockedUntil(rateLimitStore[i])
        /\ HasBlockedUntil(reference[i])
        /\ reference[i].attempts = rateLimitStore[i].attempts
        /\ j \in DOMAIN reference
        /\ j \notin DOMAIN rateLimitStore

====
